---- MODULE Spec2Model ----
(***************************************************************************)
(* Model of src/data_structures/qgram_index.rs: the QGrams encoder, the    *)
(* construction of QGramIndex (with_max_count), matches, diagonals and     *)
(* exact_matches.                                                          *)
(*                                                                         *)
(* Vectors keep the source's 0-based indexing: address is a function on    *)
(* 0..qgram_count, pos a function on 0..len(text)-1.  Texts and patterns   *)
(* are sequences of alphabet symbols; the symbols of an alphabet of size s *)
(* are 1..s and RanksGet gives their dense rank.                           *)
(***************************************************************************)
EXTENDS Integers, Sequences, FiniteSets, TLC

\* ---------------------------------------------------------------- bounds
MaxAlphabet == 3
MaxTextLen  == 4
MaxPatLen   == 3
MaxQ        == 2
MaxCap      == 1

\* usize arithmetic is modular when the build does not check overflow.  The
\* model uses a 16-bit usize so that the modulus is representable; all
\* positions stay far below it.
UsizeModulus == 2^16
UsizeMax     == UsizeModulus - 1

VARIABLES
    overflow_checks,  \* build profile: TRUE = overflow panics, FALSE = wraps
    pc,               \* position of the caller / running function
    panic_site,       \* where the program panicked ("" if it has not)
    q, text, alphabet_len, max_count,   \* arguments of with_max_count
    address, pos,     \* the two vectors of QGramIndex
    offset, place_i,  \* placement pass: per-bucket offset, loop counter
    last_write,       \* last write of the placement pass: [g, idx, i]
    pattern,          \* argument of diagonals / exact_matches
    hits,             \* the (i, p) pairs the query's nested loops run over
    hit_i,            \* number of (i, p) hits already processed by the query
    diagonals,        \* the HashMap of the running query
    intervals,        \* exact_matches: the Vec of reported intervals
    gap_reports,      \* exact_matches: number of intervals pushed on a gap
    last_hit,         \* last hit processed: [i, p, diagonal]
    result            \* diagonals: the returned set of Diagonal records

vars == << overflow_checks, pc, panic_site, q, text, alphabet_len, max_count,
           address, pos, offset, place_i, last_write, pattern, hits,
           hit_i, diagonals, intervals, gap_reports, last_hit, result >>

buildVars == << q, text, alphabet_len, max_count, address, pos, offset,
                place_i, last_write >>
queryVars == << pattern, hits, hit_i, diagonals, intervals, gap_reports, last_hit,
                result >>

\* ------------------------------------------------------------- utilities
Min(a, b) == IF a < b THEN a ELSE b

RECURSIVE BitAnd(_, _)
BitAnd(a, b) ==
    IF a = 0 \/ b = 0 THEN 0
    ELSE (a % 2) * (b % 2) + 2 * BitAnd(a \div 2, b \div 2)

RECURSIVE BitOr(_, _)
BitOr(a, b) ==
    IF a = 0 THEN b
    ELSE IF b = 0 THEN a
    ELSE (IF a % 2 = 1 \/ b % 2 = 1 THEN 1 ELSE 0)
         + 2 * BitOr(a \div 2, b \div 2)

Symbols(s) == 1 .. s

SeqsUpTo(S, n) == UNION { [1 .. k -> S] : k \in 0 .. n }

EmptyMap == [k \in {} |-> 0]

\* RankTransform::get of the alphabets module: the dense rank of a symbol.
RanksGet(a) == a - 1

\* ------------------------------------------------------- QGrams encoder
\* bits: (alphabet.len() as f32).log2().ceil() as usize
RECURSIVE Log2Ceil(_, _)
Log2Ceil(n, b) == IF 2^b >= n THEN b ELSE Log2Ceil(n, b + 1)

Bits(len) == Log2Ceil(len, 0)

\* mask: cast((1 << q) - 1)
Mask(qq) == 2^qq - 1

\* qgram_push: shift left by bits, OR in the rank, AND with the mask.  The
\* register is a u32; after masking it is below 2^q, so the shift never
\* reaches bit 32 for the q of this model.
qgram_push(qgram, a, bits, mask) ==
    BitAnd(BitOr(qgram * 2^bits, a), mask)

\* Iterator::next on an encoder [text, qgram, bits, mask]: the encoder after
\* the call (unchanged when the text is exhausted).
QGramsNext(enc) ==
    IF enc.text = << >> THEN enc
    ELSE [enc EXCEPT !.text  = Tail(enc.text),
                     !.qgram = qgram_push(enc.qgram, RanksGet(Head(enc.text)),
                                          enc.bits, enc.mask)]

RECURSIVE QGramsAdvance(_, _)
QGramsAdvance(enc, k) ==
    IF k = 0 THEN enc ELSE QGramsAdvance(QGramsNext(enc), k - 1)

\* Does `0..q-1` of QGrams::new overflow?  (q = 0)
NewOverflows(qq) == qq - 1 < 0

\* QGrams::new: the encoder after the q-1 initial calls of next.  The loop
\* bound q-1 is computed in usize; once the text is exhausted next changes
\* nothing, so min(bound, len) calls give the same encoder.
QGramsNew(qq, txt, len) ==
    LET rounds == (qq - 1) % UsizeModulus
    IN  QGramsAdvance([text  |-> txt,
                       qgram |-> 0,
                       bits  |-> Bits(len),
                       mask  |-> Mask(qq)],
                      Min(rounds, Len(txt)))

\* The values the iterator yields from an encoder until the text ends.
RECURSIVE QGramsCollect(_)
QGramsCollect(enc) ==
    IF enc.text = << >> THEN << >>
    ELSE LET nxt == QGramsNext(enc)
         IN  << nxt.qgram >> \o QGramsCollect(nxt)

\* for qgram in QGrams::<u32>::new(q, text, alphabet)
QGramSeq(qq, txt, len) == QGramsCollect(QGramsNew(qq, txt, len))

\* ----------------------------------------------------- with_max_count
QGramCount(len, qq) == len^qq

\* Counting pass (line 82-84): address[qgram] += 1 for each emitted qgram.
RECURSIVE CountInto(_, _)
CountInto(addr, qgs) ==
    IF qgs = << >> THEN addr
    ELSE CountInto([addr EXCEPT ![Head(qgs)] = @ + 1], Tail(qgs))

\* Masking pass (line 86-91): g ranges over 1..address.len()-1.
MaskCounts(addr, cap, last) ==
    [g \in 0 .. last |-> IF g >= 1 /\ addr[g] > cap THEN 0 ELSE addr[g]]

\* Prefix-sum pass (line 93-95): address[i] += address[i-1], i ascending.
RECURSIVE PrefixSum(_, _, _)
PrefixSum(addr, i, last) ==
    IF i > last THEN addr
    ELSE PrefixSum([addr EXCEPT ![i] = @ + addr[i - 1]], i + 1, last)

\* matches (line 112-114): the slice pos[address[g] .. address[g+1]).
MatchesOf(addr, ps, g) ==
    [k \in 1 .. (addr[g + 1] - addr[g]) |-> ps[addr[g] + k - 1]]

matches(g) == MatchesOf(address, pos, g)

\* -------------------------------------------------------------- actions
Init ==
    /\ overflow_checks \in BOOLEAN
    /\ pc = "idle"
    /\ panic_site = ""
    /\ q = 0
    /\ text = << >>
    /\ alphabet_len = 1
    /\ max_count = UsizeMax
    /\ address = EmptyMap
    /\ pos = EmptyMap
    /\ offset = EmptyMap
    /\ place_i = 0
    /\ last_write = [g |-> 0, idx |-> 0, i |-> -1]
    /\ pattern = << >>
    /\ hits = << >>
    /\ hit_i = 0
    /\ diagonals = EmptyMap
    /\ intervals = << >>
    /\ gap_reports = 0
    /\ last_hit = [i |-> 0, p |-> 0, diagonal |-> 0]
    /\ result = {}

Panic(site) ==
    /\ pc' = "panic"
    /\ panic_site' = site

\* with_max_count, line 77-80 (QGramIndex::new passes max_count = usize::MAX):
\* the call with its arguments and the allocation of address and pos.
with_max_count ==
    /\ pc = "idle"
    /\ \E len \in 1 .. MaxAlphabet, qq \in 0 .. MaxQ,
          cap \in (0 .. MaxCap) \cup {UsizeMax} :
         \E txt \in SeqsUpTo(Symbols(len), MaxTextLen) :
            /\ q' = qq
            /\ text' = txt
            /\ alphabet_len' = len
            /\ max_count' = cap
            /\ address' = [g \in 0 .. QGramCount(len, qq) |-> 0]
            /\ pos' = [k \in 0 .. Len(txt) - 1 |-> 0]
    /\ pc' = "count"
    /\ UNCHANGED << overflow_checks, panic_site, offset, place_i, last_write >>
    /\ UNCHANGED queryVars

\* line 82-84
CountingPass ==
    /\ pc = "count"
    /\ IF NewOverflows(q) /\ overflow_checks
       THEN Panic("QGrams::new") /\ UNCHANGED address
       ELSE LET qgs == QGramSeq(q, text, alphabet_len)
            IN  IF \E k \in 1 .. Len(qgs) : qgs[k] \notin DOMAIN address
                THEN Panic("count") /\ UNCHANGED address
                ELSE /\ address' = CountInto(address, qgs)
                     /\ pc' = "mask"
                     /\ UNCHANGED panic_site
    /\ UNCHANGED << overflow_checks, q, text, alphabet_len, max_count, pos,
                    offset, place_i, last_write >>
    /\ UNCHANGED queryVars

\* line 86-91
MaskingPass ==
    /\ pc = "mask"
    /\ address' = MaskCounts(address, max_count, QGramCount(alphabet_len, q))
    /\ pc' = "sum"
    /\ UNCHANGED << overflow_checks, panic_site, q, text, alphabet_len,
                    max_count, pos, offset, place_i, last_write >>
    /\ UNCHANGED queryVars

\* line 93-98: prefix sums, then the offset vector of the placement pass
PrefixSumPass ==
    /\ pc = "sum"
    /\ address' = PrefixSum(address, 1, QGramCount(alphabet_len, q))
    /\ offset' = [g \in 0 .. QGramCount(alphabet_len, q) - 1 |-> 0]
    /\ place_i' = 0
    /\ pc' = "place"
    /\ UNCHANGED << overflow_checks, panic_site, q, text, alphabet_len,
                    max_count, pos, last_write >>
    /\ UNCHANGED queryVars

\* line 99-106: one iteration of the placement loop
PlacementStep ==
    /\ pc = "place"
    /\ LET qgs == QGramSeq(q, text, alphabet_len)
       IN  /\ place_i < Len(qgs)
           /\ LET g == qgs[place_i + 1]
                  a == address[g]
                  idx == a + offset[g]
              IN  IF address[g + 1] - a # 0
                  THEN IF idx \notin DOMAIN pos
                       THEN /\ Panic("place")
                            /\ UNCHANGED << pos, offset, place_i, last_write >>
                       ELSE /\ pos' = [pos EXCEPT ![idx] = place_i]
                            /\ offset' = [offset EXCEPT ![g] = @ + 1]
                            /\ last_write' = [g |-> g, idx |-> idx,
                                              i |-> place_i]
                            /\ place_i' = place_i + 1
                            /\ UNCHANGED << pc, panic_site >>
                  ELSE /\ place_i' = place_i + 1
                       /\ UNCHANGED << pc, panic_site, pos, offset,
                                       last_write >>
    /\ UNCHANGED << overflow_checks, q, text, alphabet_len, max_count,
                    address >>
    /\ UNCHANGED queryVars

\* line 109: the loop is over, the index is returned
ReturnIndex ==
    /\ pc = "place"
    /\ place_i = Len(QGramSeq(q, text, alphabet_len))
    /\ pc' = "built"
    /\ UNCHANGED << overflow_checks, panic_site >>
    /\ UNCHANGED buildVars
    /\ UNCHANGED queryVars

\* ---------------------------------------------------------------- queries
\* The (i, p) pairs of the two nested loops of diagonals / exact_matches, in
\* scan order: i enumerates the q-grams of the pattern, p the slice
\* matches(qgram).
RECURSIVE HitsFrom(_, _, _, _)
HitsFrom(qgs, i, addr, ps) ==
    IF i >= Len(qgs) THEN << >>
    ELSE LET m == MatchesOf(addr, ps, qgs[i + 1])
         IN  [k \in 1 .. Len(m) |-> [i |-> i, p |-> m[k]]]
             \o HitsFrom(qgs, i + 1, addr, ps)

Hits(pat) == HitsFrom(QGramSeq(q, pat, alphabet_len), 0, address, pos)

\* let diagonal = p - i  (usize): the value when the subtraction wraps
UsizeSub(p, i) == (p - i) % UsizeModulus

MapPut(m, k, v) == [x \in DOMAIN m \cup {k} |-> IF x = k THEN v ELSE m[x]]

MapRemove(m, k) == [x \in DOMAIN m \ {k} |-> m[x]]

\* line 140-145
NewMatch(i, p, qq) ==
    [pattern_start |-> i, pattern_stop |-> i + qq,
     text_start |-> p, text_stop |-> p + qq]

\* line 151-152 with a slip: the text stop computed from i
ExtendMatchFromI(interval, i, p, qq) ==
    [interval EXCEPT !.pattern_stop = i + qq, !.text_stop = i + qq]

\* line 151-152
ExtendMatch(interval, i, p, qq) ==
    [interval EXCEPT !.pattern_stop = i + qq, !.text_stop = p + qq]

\* line 138-164 without the push of line 156
ExactMatchStepNoReport(diags, ivs, i, p, d, qq) ==
    IF d \notin DOMAIN diags
    THEN [diagonals |-> MapPut(diags, d, NewMatch(i, p, qq)),
          intervals |-> ivs, gap |-> 0]
    ELSE IF diags[d].pattern_stop = i
         THEN [diagonals |-> MapPut(diags, d, ExtendMatch(diags[d], i, p, qq)),
               intervals |-> ivs, gap |-> 0]
         ELSE [diagonals |-> MapPut(diags, d, NewMatch(i, p, qq)),
               intervals |-> ivs, gap |-> 1]

\* line 138-164: the body of the inner loop of exact_matches for the hit
\* (i, p) on diagonal d
ExactMatchStep(diags, ivs, i, p, d, qq) ==
    IF d \notin DOMAIN diags
    THEN [diagonals |-> MapPut(diags, d, NewMatch(i, p, qq)),
          intervals |-> ivs, gap |-> 0]
    ELSE IF diags[d].pattern_stop = i
         THEN [diagonals |-> MapPut(diags, d, ExtendMatch(diags[d], i, p, qq)),
               intervals |-> ivs, gap |-> 0]
         ELSE [diagonals |-> MapPut(diags, d, NewMatch(i, p, qq)),
               intervals |-> Append(ivs, diags[d]), gap |-> 1]

\* exact_matches, line 132-135: the call with its pattern
exact_matches ==
    /\ pc = "built"
    /\ \E pat \in SeqsUpTo(Symbols(alphabet_len), MaxPatLen) :
          /\ pattern' = pat
          /\ hits' = Hits(pat)
    /\ hit_i' = 0
    /\ diagonals' = EmptyMap
    /\ intervals' = << >>
    /\ gap_reports' = 0
    /\ IF NewOverflows(q) /\ overflow_checks
       THEN Panic("QGrams::new")
       ELSE pc' = "em" /\ UNCHANGED panic_site
    /\ UNCHANGED << overflow_checks, last_hit, result >>
    /\ UNCHANGED buildVars

\* line 136-165: one iteration of the inner loop
ExactMatchesHit ==
    /\ pc = "em"
    /\ hit_i < Len(hits)
    /\ LET h == hits[hit_i + 1]
       IN  IF h.p - h.i < 0 /\ overflow_checks
           THEN /\ Panic("p - i")
                /\ last_hit' = [i |-> h.i, p |-> h.p, diagonal |-> 0]
                /\ UNCHANGED << hit_i, diagonals, intervals, gap_reports >>
           ELSE LET d == UsizeSub(h.p, h.i)
                    r == ExactMatchStep(diagonals, intervals, h.i, h.p, d, q)
                IN  /\ diagonals' = r.diagonals
                    /\ intervals' = r.intervals
                    /\ gap_reports' = gap_reports + r.gap
                    /\ last_hit' = [i |-> h.i, p |-> h.p, diagonal |-> d]
                    /\ hit_i' = hit_i + 1
                    /\ UNCHANGED << pc, panic_site >>
    /\ UNCHANGED << overflow_checks, pattern, hits, result >>
    /\ UNCHANGED buildVars

\* line 168-170: the map is consumed in the arbitrary order of its iterator
ExactMatchesReport ==
    /\ pc = "em"
    /\ hit_i = Len(hits)
    /\ \E d \in DOMAIN diagonals :
          /\ intervals' = Append(intervals, diagonals[d])
          /\ diagonals' = MapRemove(diagonals, d)
    /\ UNCHANGED << overflow_checks, pc, panic_site, pattern, hits, hit_i,
                    gap_reports, last_hit, result >>
    /\ UNCHANGED buildVars

\* line 171
ExactMatchesReturn ==
    /\ pc = "em"
    /\ hit_i = Len(hits)
    /\ DOMAIN diagonals = {}
    /\ pc' = "em_done"
    /\ UNCHANGED << overflow_checks, panic_site >>
    /\ UNCHANGED buildVars
    /\ UNCHANGED queryVars

\* diagonals, line 116-118: the call with its pattern
diagonals_call ==
    /\ pc = "built"
    /\ \E pat \in SeqsUpTo(Symbols(alphabet_len), MaxPatLen) :
          /\ pattern' = pat
          /\ hits' = Hits(pat)
    /\ hit_i' = 0
    /\ diagonals' = EmptyMap
    /\ result' = {}
    /\ IF NewOverflows(q) /\ overflow_checks
       THEN Panic("QGrams::new")
       ELSE pc' = "diag" /\ UNCHANGED panic_site
    /\ UNCHANGED << overflow_checks, intervals, gap_reports, last_hit >>
    /\ UNCHANGED buildVars

\* line 119-127: one iteration of the inner loop.  The count is set to 1 when
\* the key is present; otherwise get_mut returns None and unwrap panics.
DiagonalsHit ==
    /\ pc = "diag"
    /\ hit_i < Len(hits)
    /\ LET h == hits[hit_i + 1]
       IN  IF h.p - h.i < 0 /\ overflow_checks
           THEN /\ Panic("p - i")
                /\ last_hit' = [i |-> h.i, p |-> h.p, diagonal |-> 0]
                /\ UNCHANGED << hit_i, diagonals >>
           ELSE LET d == UsizeSub(h.p, h.i)
                IN  /\ last_hit' = [i |-> h.i, p |-> h.p, diagonal |-> d]
                    /\ IF d \in DOMAIN diagonals
                       THEN /\ diagonals' = MapPut(diagonals, d, 1)
                            /\ hit_i' = hit_i + 1
                            /\ UNCHANGED << pc, panic_site >>
                       ELSE /\ Panic("unwrap")
                            /\ UNCHANGED << hit_i, diagonals >>
    /\ UNCHANGED << overflow_checks, pattern, hits, intervals, gap_reports,
                    result >>
    /\ UNCHANGED buildVars

\* line 129
DiagonalsReturn ==
    /\ pc = "diag"
    /\ hit_i = Len(hits)
    /\ result' = { [pos |-> d, count |-> diagonals[d]] : d \in DOMAIN diagonals }
    /\ pc' = "diag_done"
    /\ UNCHANGED << overflow_checks, panic_site, pattern, hits, hit_i,
                    diagonals, intervals, gap_reports, last_hit >>
    /\ UNCHANGED buildVars

Next ==
    \/ with_max_count
    \/ CountingPass
    \/ MaskingPass
    \/ PrefixSumPass
    \/ PlacementStep
    \/ ReturnIndex
    \/ exact_matches
    \/ ExactMatchesHit
    \/ ExactMatchesReport
    \/ ExactMatchesReturn
    \/ diagonals_call
    \/ DiagonalsHit
    \/ DiagonalsReturn

Spec == Init /\ [][Next]_vars

\* ------------------------------------------------------------ properties
\* Reference notions used by the properties below.
ValidInput == q >= 1 /\ Len(text) >= q

TextQGrams == QGramSeq(q, text, alphabet_len)

\* window-start positions of the text whose window encodes to g
Occurrences(g) == { i \in 0 .. Len(text) - q : TextQGrams[i + 1] = g }

RECURSIVE AscSeq(_)
AscSeq(S) ==
    IF S = {} THEN << >>
    ELSE LET m == CHOOSE x \in S : \A y \in S : x <= y
         IN  << m >> \o AscSeq(S \ {m})

QGramValues == 0 .. QGramCount(alphabet_len, q) - 1

\* the value of the window s[i .. i+q): sum of rank * 2^(bits*(q-1-j))
RECURSIVE WindowValue(_, _, _, _)
WindowValue(s, i, j, bits) ==
    IF j >= q THEN 0
    ELSE RanksGet(s[i + j + 1]) * 2^(bits * (q - 1 - j))
         + WindowValue(s, i, j + 1, bits)

HitSet == { hits[k] : k \in 1 .. Len(hits) }

IntervalSet == { intervals[k] : k \in 1 .. Len(intervals) }

OpenSet == { diagonals[d] : d \in DOMAIN diagonals }

Covers(iv, h) ==
    /\ iv.text_start - iv.pattern_start = h.p - h.i
    /\ iv.pattern_start <= h.i
    /\ h.i + q <= iv.pattern_stop

\* C1: on the built index of a text of length n >= q, matches(g) of every
\* unmasked q-gram value g is the ascending list of the window-start
\* positions whose window encodes to g.
C1_MatchesExact ==
    (pc = "built" /\ ValidInput) =>
        \A g \in QGramValues :
            Cardinality(Occurrences(g)) <= max_count =>
                matches(g) = AscSeq(Occurrences(g))

\* C2: a q-gram value (0 included) with more than max_count windows in the
\* text has an empty matches slice on the built index.
C2_MaskedEmpty ==
    (pc = "built" /\ ValidInput) =>
        \A g \in QGramValues :
            Cardinality(Occurrences(g)) > max_count => matches(g) = << >>

\* C3: on valid input construction does not fail, and every write of the
\* placement pass lands in pos inside the bucket range of its q-gram.
C3_ConstructionCompletes ==
    ValidInput =>
        /\ panic_site \notin {"QGrams::new", "count", "place"}
        /\ last_write.i >= 0 =>
              /\ last_write.idx \in DOMAIN pos
              /\ address[last_write.g] <= last_write.idx
              /\ last_write.idx < address[last_write.g + 1]

\* C4: diagonals returns one record per diagonal with at least one hit,
\* counting the hits on that diagonal; it does not fail while tallying.
C4_DiagonalHistogram ==
    /\ panic_site # "unwrap"
    /\ pc = "diag_done" =>
          result = { [pos |-> d,
                      count |-> Cardinality({ h \in HitSet : h.p - h.i = d })] :
                     d \in { h.p - h.i : h \in HitSet } }

\* C5: when the pattern is the indexed text (n >= q, nothing masked), the
\* result of exact_matches contains the interval [0, n) / [0, n).
C5_SelfMatch ==
    (/\ pc = "em_done"
     /\ ValidInput
     /\ pattern = text
     /\ \A g \in QGramValues : Cardinality(Occurrences(g)) <= max_count)
    => [pattern_start |-> 0, pattern_stop |-> Len(text),
        text_start |-> 0, text_stop |-> Len(text)] \in IntervalSet

\* C6: every interval reported by exact_matches is at least q long and its
\* pattern range and text range have the same length.
C6_IntervalLengths ==
    \A iv \in IntervalSet :
        /\ iv.pattern_stop - iv.pattern_start >= q
        /\ iv.pattern_stop - iv.pattern_start = iv.text_stop - iv.text_start

C6_Witness ==
    /\ pc = "em_done"
    /\ gap_reports >= 1
    /\ Len(intervals) > gap_reports
    /\ \E iv \in IntervalSet : iv.pattern_stop - iv.pattern_start > q

\* C7: a hit (i, p) with p < i is recorded on the signed diagonal p - i,
\* without failure and without wrapping.
C7_SignedDiagonal ==
    (pc \in {"em", "em_done", "diag", "diag_done", "panic"}
     /\ last_hit.p < last_hit.i) =>
        /\ panic_site # "p - i"
        /\ last_hit.diagonal = last_hit.p - last_hit.i

\* C8: with q = 0 or a text shorter than q, construction does no counting
\* or placement work and returns no index.
C8_PreconditionsRejected ==
    pc \in {"mask", "sum", "place", "built"} => ValidInput

\* C9: the i-th value the encoder emits for a text of length n >= q is the
\* sum over j < q of rank(s[i+j]) * 2^(bits*(q-1-j)).
C9_EncoderValue ==
    (pc # "idle" /\ ValidInput) =>
        /\ Len(TextQGrams) = Len(text) - q + 1
        /\ \A i \in 0 .. Len(text) - q :
              TextQGrams[i + 1] = WindowValue(text, i, 0, Bits(alphabet_len))

\* C10: exact_matches loses no hit: every processed hit is covered by an
\* open or reported interval of its diagonal, and on return every hit is
\* covered by a returned interval, the intervals open at the end of the scan
\* having been pushed once each.
C10_NoHitLost ==
    /\ pc = "em" =>
          \A k \in 1 .. hit_i :
              \E iv \in IntervalSet \cup OpenSet : Covers(iv, hits[k])
    /\ pc = "em_done" =>
          /\ \A h \in HitSet : \E iv \in IntervalSet : Covers(iv, h)
          /\ Len(intervals)
               = gap_reports + Cardinality({ h.p - h.i : h \in HitSet })

C10_Witness ==
    /\ pc = "em_done"
    /\ gap_reports >= 1
    /\ Cardinality({ h.p - h.i : h \in HitSet }) >= 2

====
